---- MODULE Spec2Model ----
(***************************************************************************)
(* Model of mcpdoc/main.py: create_server builds the allowed-domain set    *)
(* from the configured documentation sources, and registers two tools,     *)
(* list_doc_sources and fetch_docs.                                        *)
(*                                                                         *)
(* Python strings are sequences of one-character strings, so that          *)
(* startswith, slicing, urlparse, basename and replace are computed as the *)
(* code computes them.                                                     *)
(***************************************************************************)
EXTENDS Integers, Sequences, FiniteSets, Bags

\* ------------------------------------------------------------------------
\* Bounds of the model
\* ------------------------------------------------------------------------
MaxSources == 2        \* longest configured doc_source list
MaxCalls == 2          \* fetch_docs invocations that may be in flight at once

\* ------------------------------------------------------------------------
\* String literals
\* ------------------------------------------------------------------------
HTTP == <<"h", "t", "t", "p", ":", "/", "/">>
FILE == <<"f", "i", "l", "e", ":", "/", "/">>
SEP == <<":", "/", "/">>
STAR == <<"*">>
NL == <<"\n">>
PathLabel == <<"P", "a", "t", "h", ":", " ">>
UrlLabel == <<"U", "R", "L", ":", " ">>

UrlAL == HTTP \o <<"a", "/", "l">>                               \* http://a/l
UrlB == HTTP \o <<"b">>                                          \* http://b
UrlCDP == HTTP \o <<"c", "d", "/", "p">>                         \* http://cd/p
UrlBad == HTTP \o <<"a", ":", "x">>                              \* http://a:x
FileX == FILE \o <<"/", "x">>                                    \* file:///x
FileZ == FILE \o <<"/", "z">>                                    \* file:///z
PathX == <<"/", "x">>                                            \* /x
PathY == <<"y">>                                                 \* y
PrefixC == HTTP \o <<"c">>                                       \* http://c
OriginA == HTTP \o <<"a", "/">>                                  \* http://a/
NameN == <<"n">>

\* ------------------------------------------------------------------------
\* Python string primitives
\* ------------------------------------------------------------------------
Min(S) == CHOOSE m \in S : \A k \in S : m <= k

\* s.startswith(p)
StartsWith(s, p) == Len(p) <= Len(s) /\ SubSeq(s, 1, Len(p)) = p

\* s[n:]
Drop(s, n) == SubSeq(s, n + 1, Len(s))

\* s.find(c) as a 1-based index, 0 when absent
Find(s, c) ==
    LET hits == {i \in 1..Len(s) : s[i] = c}
    IN  IF hits = {} THEN 0 ELSE Min(hits)

\* s.rfind(c) as a 1-based index, 0 when absent
RFind(s, c) ==
    LET hits == {i \in 1..Len(s) : s[i] = c}
    IN  IF hits = {} THEN 0 ELSE CHOOSE m \in hits : \A k \in hits : k <= m

\* s.replace(pat, ""): every non-overlapping occurrence, left to right
RECURSIVE Remove(_, _)
Remove(s, pat) ==
    IF Len(s) < Len(pat) \/ s = <<>> THEN s
    ELSE IF StartsWith(s, pat) THEN Remove(Drop(s, Len(pat)), pat)
    ELSE <<Head(s)>> \o Remove(Tail(s), pat)

\* os.path.basename(p): what follows the last "/"
Basename(p) == Drop(p, RFind(p, "/"))

Upper == {"H", "T", "P"}
Letters == {"a", "b", "c", "e", "f", "h", "i", "l", "n", "p", "t", "x", "y", "z"} \cup Upper
SchemeChars == Letters \cup {"+", "-", "."}

\* str.lower() on one character
LowerChar(c) ==
    CASE c = "H" -> "h"
      [] c = "T" -> "t"
      [] c = "P" -> "p"
      [] OTHER -> c

Lower(s) == [i \in 1..Len(s) |-> LowerChar(s[i])]

\* urllib.parse.urlparse(url): the scheme and netloc components.  The scheme
\* is the text before the first ":" when it starts with a letter and holds
\* only scheme characters, lower-cased; the netloc follows "//" up to the
\* first of "/", "?", "#".
urlparse(url) ==
    LET i == Find(url, ":")
        hasScheme == /\ i > 1
                     /\ url[1] \in Letters
                     /\ \A k \in 1..(i - 1) : url[k] \in SchemeChars
        scheme == IF hasScheme THEN Lower(SubSeq(url, 1, i - 1)) ELSE <<>>
        rest == IF hasScheme THEN Drop(url, i) ELSE url
        ends == {k \in 3..Len(rest) : rest[k] \in {"/", "?", "#"}}
        delim == IF ends = {} THEN Len(rest) + 1 ELSE Min(ends)
        netloc == IF StartsWith(rest, <<"/", "/">>)
                  THEN SubSeq(rest, 3, delim - 1) ELSE <<>>
    IN  [scheme |-> scheme, netloc |-> netloc]

extract_domain(url) ==
    LET parsed == urlparse(url)
    IN  parsed.scheme \o SEP \o parsed.netloc \o <<"/">>

\* markdownify(text), the external HTML-to-Markdown converter, on the markup
\* the model's documents use: <b> and </b> become "**", any other tag is
\* dropped, text is kept.
RECURSIVE markdownify(_)
markdownify(s) ==
    IF s = <<>> THEN <<>>
    ELSE IF Head(s) = "<" /\ Find(s, ">") > 0
    THEN LET j == Find(s, ">")
             tag == SubSeq(s, 2, j - 1)
             out == IF tag \in {<<"b">>, <<"/", "b">>} THEN <<"*", "*">> ELSE <<>>
         IN  out \o markdownify(Drop(s, j))
    ELSE <<Head(s)>> \o markdownify(Tail(s))

\* ------------------------------------------------------------------------
\* Configuration and environment the model draws from
\* ------------------------------------------------------------------------
\* DocSource entries; a missing name and an empty name are both <<>>
\* (entry.get("name", "") is falsy for either).
DocSource(llms_txt, name) == [llms_txt |-> llms_txt, name |-> name]

SourcePool ==
    { DocSource(UrlAL, <<>>), DocSource(UrlB, NameN),
      DocSource(FileX, <<>>), DocSource(PathY, <<>>) }

RECURSIVE SeqsUpTo(_, _)
SeqsUpTo(S, n) ==
    IF n = 0 THEN {<<>>}
    ELSE LET shorter == SeqsUpTo(S, n - 1)
         IN  shorter \cup {Append(q, x) : q \in shorter, x \in S}

\* allowed_domains argument; None and [] are both the empty collection
ExtraPool == {STAR, PrefixC}

\* locators a caller passes to fetch_docs
LocatorPool == {UrlAL, UrlB, UrlCDP, UrlBad, FileX, FileZ, PathY}

\* paths that exist for the whole run, and paths that come and go
Stable == {PathX}
Volatile == {PathY}

\* text of every document, on disk or served over HTTP
RawDoc == <<"<", "b", ">", "t", "<", "/", "b", ">">>

\* ------------------------------------------------------------------------
\* State
\* ------------------------------------------------------------------------
VARIABLES
    doc_source,       \* create_server argument: sequence of DocSource
    allowed_domains,  \* create_server argument: extra allowed domains
    probed,           \* paths that existed when create_server probed them
    domains,          \* the closure variable fetch_docs checks locators against
    fs,               \* paths that exist now
    pending,          \* bag of fetch_docs invocations suspended at the HTTP GET
    returned          \* outcome of the invocation that ended last

vars == <<doc_source, allowed_domains, probed, domains, fs, pending, returned>>

FilePrefixLen == 7

\* a probe that takes only absolute paths for files
exists_abs(path, disk) == path \in disk /\ path # <<>> /\ Head(path) = "/"

\* os.path.exists(path) against a set of existing paths
exists(path, disk) == path \in disk

\* the classification create_server and list_doc_sources apply to a source
is_local(url, disk) == StartsWith(url, FILE) \/ exists(url, disk)

\* create_server without the "and not domains" of line 117
create_server_domains_any_local(sources, extra, disk) ==
    LET remote == {i \in 1..Len(sources) : ~is_local(sources[i].llms_txt, disk)}
        has_local_files == \E i \in 1..Len(sources) : is_local(sources[i].llms_txt, disk)
        parsed == {extract_domain(sources[i].llms_txt) : i \in remote}
    IN  IF extra # {}
        THEN IF STAR \in extra THEN {STAR} ELSE parsed \cup extra
        ELSE IF has_local_files THEN {STAR}
        ELSE parsed

\* create_server, lines 99-119: the value of domains when it returns
create_server_domains(sources, extra, disk) ==
    LET remote == {i \in 1..Len(sources) : ~is_local(sources[i].llms_txt, disk)}
        has_local_files == \E i \in 1..Len(sources) : is_local(sources[i].llms_txt, disk)
        parsed == {extract_domain(sources[i].llms_txt) : i \in remote}
    IN  IF extra # {}
        THEN IF STAR \in extra THEN {STAR} ELSE parsed \cup extra
        ELSE IF has_local_files /\ parsed = {} THEN {STAR}
        ELSE parsed

\* list_doc_sources labelling by the file:// prefix alone
RECURSIVE list_content_prefix_only(_, _, _)
list_content_prefix_only(sources, i, disk) ==
    IF i > Len(sources) THEN <<>>
    ELSE LET url_or_path == sources[i].llms_txt
             local == StartsWith(url_or_path, FILE)
             name == IF sources[i].name # <<>> THEN sources[i].name
                     ELSE IF local THEN Basename(Remove(url_or_path, FILE))
                     ELSE extract_domain(url_or_path)
             label == IF local THEN PathLabel ELSE UrlLabel
         IN  name \o NL \o label \o url_or_path \o NL \o NL
                  \o list_content_prefix_only(sources, i + 1, disk)

\* list_doc_sources, lines 83-97: the text built for the entries from i on
RECURSIVE list_content(_, _, _)
list_content(sources, i, disk) ==
    IF i > Len(sources) THEN <<>>
    ELSE LET url_or_path == sources[i].llms_txt
             local == is_local(url_or_path, disk)
             name == IF sources[i].name # <<>> THEN sources[i].name
                     ELSE IF local THEN Basename(Remove(url_or_path, FILE))
                     ELSE extract_domain(url_or_path)
             label == IF local THEN PathLabel ELSE UrlLabel
         IN  name \o NL \o label \o url_or_path \o NL \o NL
                  \o list_content(sources, i + 1, disk)

\* the allowlist test by membership instead of by prefix
not_allowed_exact(url, allowed) == STAR \notin allowed /\ url \notin allowed

\* the allowlist test without the "*" marker
not_allowed_no_star(url, allowed) == ~(\E domain \in allowed : StartsWith(url, domain))

\* line 161: the allowlist test that rejects a locator
not_allowed(url, allowed) ==
    STAR \notin allowed /\ ~(\E domain \in allowed : StartsWith(url, domain))

\* What open/read/markdownify can do in the local branches: the path is
\* missing, or it is there and the read or the conversion may still fail.
LocalOutcomes(path, disk) ==
    IF exists(path, disk) THEN {"ok", "PermissionError", "ConversionError"}
    ELSE {"FileNotFoundError"}

\* What httpx_client.get does before any network wait: a port that is not a
\* number is httpx.InvalidURL, a scheme other than http(s) is
\* httpx.UnsupportedProtocol; otherwise the request goes out.
ImmediateFault(url) ==
    LET parsed == urlparse(url)
        colon == Find(parsed.netloc, ":")
        port == Drop(parsed.netloc, colon)
    IN  IF parsed.scheme # <<"h", "t", "t", "p">> THEN "UnsupportedProtocol"
        ELSE IF colon > 0 /\ \E k \in 1..Len(port) : port[k] \in Letters THEN "InvalidURL"
        ELSE "none"

\* What the awaited GET, raise_for_status and markdownify can do
ResponseOutcomes == {"ok", "HTTPStatusError", "ConnectError", "ReadTimeout", "ConversionError"}

\* line 172: except (httpx.HTTPStatusError, httpx.RequestError)
RequestErrors == {"ConnectError", "ReadTimeout", "UnsupportedProtocol"}
caught(e) == e = "HTTPStatusError" \/ e \in RequestErrors

\* ------------------------------------------------------------------------
\* What an invocation hands back
\* ------------------------------------------------------------------------
\* op, url: the tool and its argument.  seen: what os.path.exists saw when
\* the call classified its locator (for list_doc_sources, every path that
\* existed).  route: the branch that served the call.  read: the path
\* opened.  gets: calls of httpx_client.get.  kind, text, reason, listed:
\* the returned string, or the exception that left the function.
Outcome(op, url, seen, route, read, gets, kind, text, reason, listed) ==
    [op |-> op, url |-> url, seen |-> seen, route |-> route, read |-> read,
     gets |-> gets, kind |-> kind, text |-> text, reason |-> reason,
     listed |-> listed]

NoOutcome == Outcome("none", <<>>, {}, "none", <<>>, 0, "none", <<>>, "none", {})

\* lines 145-150 and 154-159: read file_path, convert, or report the failure
local_read(url, seen, route, file_path, how) ==
    IF how = "ok"
    THEN Outcome("fetch_docs", url, seen, route, file_path, 0,
                 "content", markdownify(RawDoc), "none", {})
    ELSE Outcome("fetch_docs", url, seen, route, file_path, 0,
                 "local_error", <<>>, how, {})

\* lines 162-165: the rejection message names the domains
rejection(url, seen, allowed) ==
    Outcome("fetch_docs", url, seen, "remote", <<>>, 0,
            "not_allowed", <<>>, "none", allowed)

\* lines 168-173: the end of a call that called httpx_client.get `gets` times
http_result(url, seen, gets, how) ==
    IF how = "ok"
    THEN Outcome("fetch_docs", url, seen, "remote", <<>>, gets,
                 "content", markdownify(RawDoc), "none", {})
    ELSE IF caught(how)
    THEN Outcome("fetch_docs", url, seen, "remote", <<>>, gets,
                 "http_error", <<>>, how, {})
    ELSE Outcome("fetch_docs", url, seen, "remote", <<>>, gets,
                 "raised", <<>>, how, {})

\* a fetch_docs invocation waiting at line 169
Suspended(url, seen, gets) == [url |-> url, seen |-> seen, gets |-> gets]

\* ------------------------------------------------------------------------
\* Initial state: create_server has returned
\* ------------------------------------------------------------------------
Init ==
    /\ doc_source \in SeqsUpTo(SourcePool, MaxSources)
    /\ allowed_domains \in SUBSET ExtraPool
    /\ probed \in {Stable \cup v : v \in SUBSET Volatile}
    /\ domains = create_server_domains(doc_source, allowed_domains, probed)
    /\ fs = probed
    /\ pending = EmptyBag
    /\ returned = NoOutcome

\* ------------------------------------------------------------------------
\* Actions
\* ------------------------------------------------------------------------
\* list_doc_sources(): synchronous, runs to completion
list_doc_sources ==
    /\ returned' = Outcome("list_doc_sources", <<>>, fs, "none", <<>>, 0, "listing",
                           list_content(doc_source, 1, fs), "none", {})
    /\ UNCHANGED <<doc_source, allowed_domains, probed, domains, fs, pending>>

\* fetch_docs(url) from its entry to its return or to its await
fetch_docs(url) ==
    /\ LET seen == fs \cap {url}
       IN  IF StartsWith(url, FILE)
           THEN /\ \E how \in LocalOutcomes(Drop(url, FilePrefixLen), fs) :
                     returned' = local_read(url, seen, "file_scheme",
                                            Drop(url, FilePrefixLen), how)
                /\ UNCHANGED pending
           ELSE IF exists(url, fs)
           THEN /\ \E how \in LocalOutcomes(url, fs) :
                     returned' = local_read(url, seen, "path", url, how)
                /\ UNCHANGED pending
           ELSE IF not_allowed(url, domains)
           THEN /\ returned' = rejection(url, seen, domains)
                /\ UNCHANGED pending
           ELSE IF ImmediateFault(url) # "none"
           THEN /\ returned' = http_result(url, seen, 1, ImmediateFault(url))
                /\ UNCHANGED pending
           ELSE /\ BagCardinality(pending) < MaxCalls
                /\ pending' = pending (+) SetToBag({Suspended(url, seen, 1)})
                /\ UNCHANGED returned
    /\ UNCHANGED <<doc_source, allowed_domains, probed, domains, fs>>

\* fetch_docs issuing the GET a second time when the first one fails
fetch_docs_resume_retry(call, how) ==
    /\ BagIn(call, pending)
    /\ IF how \notin {"ok", "ConversionError"} /\ call.gets < 2
       THEN /\ pending' = (pending (-) SetToBag({call}))
                              (+) SetToBag({Suspended(call.url, call.seen, call.gets + 1)})
            /\ UNCHANGED returned
       ELSE /\ pending' = pending (-) SetToBag({call})
            /\ returned' = http_result(call.url, call.seen, call.gets, how)
    /\ UNCHANGED <<doc_source, allowed_domains, probed, domains, fs>>

\* fetch_docs dropping from domains the domains of a locator whose GET failed
fetch_docs_resume_evict(call, how) ==
    /\ BagIn(call, pending)
    /\ pending' = pending (-) SetToBag({call})
    /\ returned' = http_result(call.url, call.seen, call.gets, how)
    /\ domains' = IF how \in {"ok", "ConversionError"} THEN domains
                  ELSE {d \in domains : ~StartsWith(call.url, d)}
    /\ UNCHANGED <<doc_source, allowed_domains, probed, fs>>

\* fetch_docs resumed when the awaited GET ends
fetch_docs_resume(call, how) ==
    /\ BagIn(call, pending)
    /\ pending' = pending (-) SetToBag({call})
    /\ returned' = http_result(call.url, call.seen, call.gets, how)
    /\ UNCHANGED <<doc_source, allowed_domains, probed, domains, fs>>

\* the environment creates or removes a file
FsChange(path) ==
    /\ fs' = IF path \in fs THEN fs \ {path} ELSE fs \cup {path}
    /\ UNCHANGED <<doc_source, allowed_domains, probed, domains, pending, returned>>

Next ==
    \/ list_doc_sources
    \/ \E url \in LocatorPool : fetch_docs(url)
    \/ \E call \in BagToSet(pending), how \in ResponseOutcomes : fetch_docs_resume(call, how)
    \/ \E path \in Volatile : FsChange(path)

Spec == Init /\ [][Next]_vars

\* ------------------------------------------------------------------------
\* Vocabulary of the properties
\* ------------------------------------------------------------------------
AllowAll == STAR \in domains

\* the calls whose locator was neither file://-prefixed nor an existing path
\* when the call classified it
NonLocal(r) == ~StartsWith(r.url, FILE) /\ r.url \notin r.seen

Fetched == returned.op = "fetch_docs"

InFlight == BagToSet(pending)

Sources == {doc_source[i] : i \in 1..Len(doc_source)}

RemoteAtStartup == {e \in Sources : ~is_local(e.llms_txt, probed)}

LocalAtStartup == {e \in Sources : is_local(e.llms_txt, probed)}

\* ------------------------------------------------------------------------
\* C1: fetch_docs never raises: whatever the locator and whatever its
\* collaborators do, the invocation ends by returning a string.
C1_NeverRaises == Fetched => returned.kind # "raised"

\* ------------------------------------------------------------------------
\* C2: when the allowed set is not allow-all, a call with a non-local
\* locator that starts with none of the allowed domains returns the
\* rejection naming the allowed domains and calls no GET; a non-local
\* locator that starts with one of them goes on to the GET.
C2_AllowlistGate ==
    ~AllowAll =>
        /\ (Fetched /\ NonLocal(returned)) =>
              IF \E d \in domains : StartsWith(returned.url, d)
              THEN returned.kind # "not_allowed" /\ returned.gets = 1
              ELSE /\ returned.kind = "not_allowed"
                   /\ returned.listed = domains
                   /\ returned.gets = 0
        /\ \A c \in InFlight : \E d \in domains : StartsWith(c.url, d)

\* sources = [http://a/l], no extra domains: http://a/l is waiting at its GET
\* and http://b has just been rejected with a message naming http://a/
C2_Witness ==
    /\ domains = {OriginA}
    /\ Suspended(UrlAL, {}, 1) \in InFlight
    /\ returned.url = UrlB
    /\ returned.kind = "not_allowed"
    /\ returned.listed = {OriginA}

\* ------------------------------------------------------------------------
\* C3: when the allowed set is not allow-all, every remote locator whose
\* origin (scheme://host/) is not a member of the allowed set is rejected and
\* never reaches the GET.
C3_OriginMembership ==
    ~AllowAll =>
        /\ (Fetched /\ NonLocal(returned) /\ extract_domain(returned.url) \notin domains)
              => returned.kind = "not_allowed" /\ returned.gets = 0
        /\ \A c \in InFlight : extract_domain(c.url) \in domains

\* ------------------------------------------------------------------------
\* C4: the origin of every source that was remote at startup is allowed, so
\* that fetch_docs called with that source's own locator passes the allowlist
\* check and reaches the GET.  Stated for the sources given as http:// URLs,
\* which every reading of "remote source" covers.
C4_SourceReachesGet ==
    \A e \in {r \in RemoteAtStartup : StartsWith(r.llms_txt, HTTP)} :
        /\ AllowAll \/ extract_domain(e.llms_txt) \in domains
        /\ (Fetched /\ NonLocal(returned) /\ returned.url = e.llms_txt)
              => returned.kind # "not_allowed" /\ returned.gets = 1

\* ------------------------------------------------------------------------
\* C5: with a local source, no remote source and no extra domains the
\* allowed set is allow-all; in every other configuration without "*" among
\* the extra domains it is the origins of the remote sources together with
\* the extra domains, and is not allow-all.
C5_AllowedSetShape ==
    LET localOnly == /\ LocalAtStartup # {}
                     /\ RemoteAtStartup = {}
                     /\ allowed_domains = {}
        origins == {extract_domain(e.llms_txt) : e \in RemoteAtStartup}
    IN  /\ localOnly => domains = {STAR}
        /\ (~localOnly /\ STAR \notin allowed_domains) =>
              domains = origins \cup allowed_domains /\ ~AllowAll

\* a local source next to a remote one, and an extra domain: the set is the
\* remote origin and the extra domain, and a call has been answered from it
C5_Witness ==
    /\ LocalAtStartup # {}
    /\ domains = {OriginA, PrefixC}
    /\ Fetched

\* ------------------------------------------------------------------------
\* C6: under allow-all, and so whenever "*" is among the extra domains, a
\* call with a non-local locator reaches the GET and is never rejected.
C6_AllowAllPasses ==
    /\ STAR \in allowed_domains => AllowAll
    /\ AllowAll =>
          /\ (Fetched /\ NonLocal(returned)) =>
                returned.kind # "not_allowed" /\ returned.gets = 1
          /\ \A c \in InFlight : c.gets = 1

\* "*" is configured next to a remote source, and a locator of another origin
\* is waiting at its GET
C6_Witness ==
    /\ STAR \in allowed_domains
    /\ RemoteAtStartup # {}
    /\ Suspended(UrlCDP, {}, 1) \in InFlight

\* ------------------------------------------------------------------------
\* C7: a local locator is served by a local read and never by HTTP: a
\* file:// locator is read from the path after the prefix whether or not that
\* path exists, a locator that exists as a path is read from that path; the
\* call ends there, with the content or the local-read error and its reason,
\* without the allowlist and without a GET.
LocalReasons == {"FileNotFoundError", "PermissionError", "ConversionError"}

ServedLocally(r, route, path) ==
    /\ r.route = route
    /\ r.read = path
    /\ r.gets = 0
    /\ \/ r.kind = "content"
       \/ r.kind = "local_error" /\ r.reason \in LocalReasons

C7_LocalServedLocally ==
    /\ (Fetched /\ StartsWith(returned.url, FILE)) =>
          ServedLocally(returned, "file_scheme", Drop(returned.url, Len(FILE)))
    /\ (Fetched /\ ~StartsWith(returned.url, FILE) /\ returned.url \in returned.seen) =>
          ServedLocally(returned, "path", returned.url)
    /\ \A c \in InFlight : NonLocal(c)

\* file:///z, whose path does not exist and which no allowed domain
\* prefixes, has been answered with the local-read error
C7_Witness ==
    /\ ~AllowAll
    /\ domains # {}
    /\ returned.url = FileZ
    /\ returned.kind = "local_error"
    /\ returned.reason = "FileNotFoundError"

\* ------------------------------------------------------------------------
\* C8: the listing holds, for each configured source in order, one name line
\* followed by one locator line, "Path: <locator>" for a local locator and
\* "URL: <locator>" otherwise, and nothing else.
RECURSIVE Lines(_)
Lines(s) ==
    IF s = <<>> THEN <<>>
    ELSE LET j == Find(s, "\n")
         IN  IF j = 0 THEN <<s>>
             ELSE <<SubSeq(s, 1, j - 1)>> \o Lines(Drop(s, j))

IsLocatorLine(l) == StartsWith(l, PathLabel) \/ StartsWith(l, UrlLabel)

C8_ListingShape ==
    returned.op = "list_doc_sources" =>
        LET L == Lines(returned.text)
            n == Len(doc_source)
        IN  /\ Len(L) = 3 * n
            /\ \A i \in 1..n :
                  LET u == doc_source[i].llms_txt
                      local == StartsWith(u, FILE) \/ u \in returned.seen
                  IN  /\ ~IsLocatorLine(L[3 * i - 2])
                      /\ doc_source[i].name # <<>> => L[3 * i - 2] = doc_source[i].name
                      /\ L[3 * i - 1] = (IF local THEN PathLabel ELSE UrlLabel) \o u
                      /\ L[3 * i] = <<>>

\* two sources, an existing bare path before a URL, have been listed
C8_Witness ==
    /\ returned.op = "list_doc_sources"
    /\ Len(doc_source) = 2
    /\ doc_source[1].llms_txt = PathY
    /\ PathY \in returned.seen
    /\ doc_source[2].llms_txt = UrlB

\* ------------------------------------------------------------------------
\* C9: a remote fetch that times out or fails is reported once and not
\* retried: the invocation calls the GET once, returns the error string with
\* the reason, and changes nothing a later call depends on.
GetFailures == {"HTTPStatusError", "ConnectError", "ReadTimeout"}

ReportedOnce ==
    /\ \A c \in InFlight : c.gets = 1
    /\ Fetched => returned.gets <= 1
    /\ (Fetched /\ returned.reason \in GetFailures) =>
          returned.kind = "http_error" /\ returned.gets = 1

FailureReported ==
    /\ returned'.kind = "http_error"
    /\ returned' # returned \/ BagCardinality(pending') < BagCardinality(pending)

OnlyTheCallerAffected ==
    /\ domains' = domains
    /\ doc_source' = doc_source
    /\ fs' = fs
    /\ \/ pending' = pending
       \/ \E c \in InFlight : c.url = returned'.url /\ pending' = pending (-) SetToBag({c})

C9_FailureReportedOnce ==
    []ReportedOnce /\ [][FailureReported => OnlyTheCallerAffected]_vars

\* a GET has timed out and been reported while another call is still waiting
C9_Witness ==
    /\ returned.kind = "http_error"
    /\ returned.reason = "ReadTimeout"
    /\ returned.gets = 1
    /\ pending # EmptyBag

\* ------------------------------------------------------------------------
\* C10: domains and the source list keep the values create_server left,
\* across every interleaving of invocations, so that a call's allowlist
\* decision depends only on its locator and the startup configuration.
StartupDomains == create_server_domains(doc_source, allowed_domains, probed)

DecidedAtStartup ==
    /\ domains = StartupDomains
    /\ (Fetched /\ NonLocal(returned)) =>
          (returned.kind = "not_allowed" <=> not_allowed(returned.url, StartupDomains))
    /\ \A c \in InFlight : ~not_allowed(c.url, StartupDomains)

C10_ConfigurationImmutable ==
    []DecidedAtStartup /\ [][domains' = domains /\ doc_source' = doc_source]_vars

\* a call has failed while two other calls are waiting at their GETs
C10_Witness ==
    /\ BagCardinality(pending) = 2
    /\ returned.kind = "http_error"
    /\ ~AllowAll

====
